---- MODULE Spec2Model ----
(***************************************************************************)
(* Snakes and ladders (src/src/main.rs): the menu that configures a game,  *)
(* the board generator Board::new / Board::add_snl and the turn engine     *)
(* GamePage::game_logic.                                                   *)
(*                                                                         *)
(* Player fields name, color and offset are never read by the generator or *)
(* by game_logic; a menu player is its colour number and a player on the   *)
(* board is its Position.                                                  *)
(***************************************************************************)
EXTENDS Integers, Sequences, FiniteSets, TLC

VARIABLES
    screen,            \* App.current: "menu" or "game"
    config,            \* MenuPage.config: players, possible_players, game_type
    rng,               \* state of the random stream behind rand::thread_rng()
    pc,                \* position inside GamePage::new: "menu", "start", "end", "play"
    call,              \* which add_snl call of Board::new runs: "snakes", "ladders"
    placed,            \* iterations of `for _ in 0..num` already completed
    attempts,          \* add_snl local `attempts`
    pos_start,         \* add_snl local `pos_start`
    tile,              \* Board.tile[row][col]
    players,           \* Board.players: sequence of Position
    game_type,         \* GamePage.game_type
    dice_value,        \* GamePage.dice_value
    player_turn,       \* GamePage.player_turn (0-based)
    ended,             \* GamePage.ended
    rolls,             \* number of RollDice messages handled so far
    last               \* what the last RollDice message met: the state before it

vars == <<screen, config, rng, pc, call, placed, attempts, pos_start, tile,
          players, game_type, dice_value, player_turn, ended, rolls, last>>

menuVars == <<screen, config>>
genVars  == <<rng, pc, call, placed, attempts, pos_start, tile>>
gameVars == <<players, game_type, dice_value, player_turn, ended>>

----------------------------------------------------------------------------
(* Bounds of the model *)

\* seeds of the random stream: 0..MaxSeed
MaxSeed == 2

\* RollDice messages handled in one game
MaxRolls == 4

\* failed exit draws the model follows inside one add_snl call
MaxFailedDraws == 60

\* seeds of the random stream when only the board is generated: 0..MaxGenSeed
MaxGenSeed == 95

\* players in a Config handed to GamePage::new directly: 0..MaxConfigPlayers
MaxConfigPlayers == 5

----------------------------------------------------------------------------
(* Program constants *)

max_attempts == 50
NumSnakes == 8
NumLadders == 8

Modes == {"Friendly", "Bump", "Swap"}

\* Mode::default()
DefaultMode == "Friendly"

----------------------------------------------------------------------------
(* Positions and tiles *)

Position(x, y) == [x |-> x, y |-> y]

\* Position { x: (p % 10), y: (p / 10) }
PositionOf(p) == Position(p % 10, p \div 10)

\* position.y * 10 + position.x
CellOf(position) == position.y * 10 + position.x

TileNone == [kind |-> "None"]
TileTarget == [kind |-> "Target"]
TileSnake(position) == [kind |-> "Snake", pos |-> position]
TileLadder(position) == [kind |-> "Ladder", pos |-> position]

\* [[Tile::None; 10]; 10]
EmptyTiles == [r \in 0..9 |-> [c \in 0..9 |-> TileNone]]

\* tile[p / 10][p % 10]
TileAt(t, p) == t[p \div 10][p % 10]

\* tile[p / 10][p % 10] = v
SetTile(t, p, v) == [t EXCEPT ![p \div 10][p % 10] = v]

----------------------------------------------------------------------------
(* The random stream.  rand::thread_rng() is an input of the program: the   *)
(* model draws its seed from 0..MaxSeed and lets every later draw follow    *)
(* from it, so that one seed is one fixed stream of draws.                  *)

\* Below 1000 the state of the stream is the raw value of its next draw.
\* From 1000 on it is a place in a scripted stream, 1000 * k + i being the
\* i-th draw of Scripts[k]; a script starts over when it runs out.

\* the draws that crowd row 9: eight snakes starting on 90..97, a ladder
\* 80 -> 98, then the start 81, whose exits 90..98 are all taken, then
\* seven ladders 11 -> 20, ..., 17 -> 26
CrowdedRow ==
    [i \in 1..16 |-> IF i % 2 = 1 THEN 80 + (i - 1) \div 2 ELSE (i - 2) \div 2]
    \o <<79, 8, 80>>
    \o [i \in 1..(max_attempts + 1) |-> 0]
    \o [i \in 1..14 |-> IF i % 2 = 1 THEN 10 + (i - 1) \div 2 ELSE (i - 2) \div 2]

\* the draws 80, 0, 80, 0, ...: the snakes 90 -> 1 and 10 -> 9, then only
\* the starts 90 and 10
Repeating == <<80, 0>>

\* the draws that wall off the last cell: eight snakes 91 -> 1, ...,
\* 98 -> 8, then eight ladders 11 -> 20, ..., 18 -> 27
SnakePit ==
    [i \in 1..16 |-> IF i % 2 = 1 THEN 81 + (i - 1) \div 2 ELSE (i - 2) \div 2]
    \o [i \in 1..16 |-> IF i % 2 = 1 THEN 10 + (i - 1) \div 2 ELSE (i - 2) \div 2]

Scripts == <<CrowdedRow, Repeating, SnakePit>>

\* the raw value of the next draw
Raw(s) == IF s < 1000 THEN s ELSE Scripts[s \div 1000][s % 1000]

\* the state of the stream after one more draw
NextRaw(s) ==
    IF s < 1000 THEN (2 * s + 1) % 97
    ELSE IF s % 1000 < Len(Scripts[s \div 1000]) THEN s + 1
         ELSE (s \div 1000) * 1000 + 1

\* rng.gen_range(lo..hi), hi excluded
gen_range(s, lo, hi) == lo + (Raw(s) % (hi - lo))

----------------------------------------------------------------------------
(* The menu *)

\* MenuPage::default(): two players listed, two in reserve
DefaultConfig ==
    [players |-> <<1, 2>>, possible_players |-> <<3, 4>>, game_type |-> DefaultMode]

\* the configuration once LaunchGame has moved it into GamePage::new
NoConfig ==
    [players |-> <<>>, possible_players |-> <<>>, game_type |-> DefaultMode]

\* Vec::remove(i), i 0-based
Remove(v, i) == [k \in 1..(Len(v) - 1) |-> IF k <= i THEN v[k] ELSE v[k + 1]]

\* Vec::pop() of a non-empty vector: the vector that is left
Pop(v) == SubSeq(v, 1, Len(v) - 1)

\* MenuMsg::PickList(mode)
PickList(mode) ==
    /\ screen = "menu"
    /\ config' = [config EXCEPT !.game_type = mode]
    /\ UNCHANGED <<screen, genVars, gameVars, rolls, last>>

\* MenuMsg::AddPlayer
AddPlayer ==
    /\ screen = "menu"
    /\ IF config.possible_players # <<>>
       THEN config' = [config EXCEPT
                !.players = Append(config.players,
                                   config.possible_players[Len(config.possible_players)]),
                !.possible_players = Pop(config.possible_players)]
       ELSE config' = config
    /\ UNCHANGED <<screen, genVars, gameVars, rolls, last>>

\* RemovePlayer, were the button offered on every row
RemovePlayer_always_offered(i) ==
    /\ screen = "menu"
    /\ i \in 0..(Len(config.players) - 1)
    /\ config' = [config EXCEPT
            !.players = Remove(config.players, i),
            !.possible_players = Append(config.possible_players, config.players[i + 1])]
    /\ UNCHANGED <<screen, genVars, gameVars, rolls, last>>

\* MenuMsg::RemovePlayer(i); the view offers the button only while more
\* than two players are listed
RemovePlayer(i) ==
    /\ screen = "menu"
    /\ Len(config.players) > 2
    /\ i \in 0..(Len(config.players) - 1)
    /\ config' = [config EXCEPT
            !.players = Remove(config.players, i),
            !.possible_players = Append(config.possible_players, config.players[i + 1])]
    /\ UNCHANGED <<screen, genVars, gameVars, rolls, last>>

\* the value of `last` before any RollDice message
NoRoll ==
    [called |-> FALSE, was_ended |-> FALSE, mover |-> 0, dice |-> 0,
     players |-> <<>>, player_turn |-> 0]

\* MenuMsg::LaunchGame(config): App::update enters GamePage::new, which
\* enters Board::new with an empty tile array
LaunchGame ==
    /\ screen = "menu"
    /\ screen' = "game"
    /\ config' = NoConfig
    /\ game_type' = config.game_type
    /\ dice_value' = 0
    /\ players' = [k \in 1..Len(config.players) |-> Position(0, 0)]
    /\ player_turn' = 0
    /\ ended' = FALSE
    /\ tile' = EmptyTiles
    /\ call' = "snakes"
    /\ placed' = 0
    /\ attempts' = 0
    /\ pos_start' = 0
    /\ pc' = "start"
    /\ UNCHANGED <<rng, rolls, last>>

----------------------------------------------------------------------------
(* Board::new and Board::add_snl *)

\* the `num` argument of the two add_snl calls
num(c) == IF c = "snakes" THEN NumSnakes ELSE NumLadders

\* the `r_start` argument: <<first, one past last>>
r_start(c) == IF c = "snakes" THEN <<10, 99>> ELSE <<1, 90>>

\* r_end, were every exit drawn from the edge row: snakes into row 0,
\* ladders into row 9
r_end_edge_row(c, pos) ==
    IF c = "snakes" THEN <<1, 10>> ELSE <<90, 99>>

\* r_end, were the ladders' exit range closed at 99 (..=99)
r_end_through_99(c, pos) ==
    IF c = "snakes" THEN <<1, (pos \div 10) * 10>>
                    ELSE <<(pos \div 10 + 1) * 10, 100>>

\* r_end, were the exit range to take in the row of the start
r_end_own_row(c, pos) ==
    IF c = "snakes" THEN <<1, (pos \div 10 + 1) * 10>>
                    ELSE <<(pos \div 10) * 10, 99>>

\* the `r_end` argument applied to pos_start
r_end(c, pos) ==
    IF c = "snakes" THEN <<1, (pos \div 10) * 10>>
                    ELSE <<(pos \div 10 + 1) * 10, 99>>

\* the `make_tile` argument
make_tile(c, position) ==
    IF c = "snakes" THEN TileSnake(position) ELSE TileLadder(position)

\* Occupied, were only a Target tile taken to be in use
Occupied_exits_only(t, p) == TileAt(t, p).kind = "Target"

\* Occupied, were a Target tile taken to be free
Occupied_starts_only(t, p) == TileAt(t, p).kind \in {"Snake", "Ladder"}

\* !matches!(tile[p / 10][p % 10], Tile::None)
Occupied(t, p) == TileAt(t, p).kind # "None"

\* gives_up, were the `continue 'outer` a plain `continue`
gives_up_never(n) == FALSE

\* if attempts > max_attempts { continue 'outer; }
gives_up(n) == n > max_attempts

\* add_snl, the start of 'outer: draw pos_start, draw again when it is taken
DrawStart ==
    /\ pc = "start"
    /\ LET ps == gen_range(rng, r_start(call)[1], r_start(call)[2])
       IN  IF Occupied(tile, ps)
           THEN pc' = "start" /\ pos_start' = 0
           ELSE pc' = "end" /\ pos_start' = ps
    /\ rng' = NextRaw(rng)
    /\ UNCHANGED <<menuVars, call, placed, attempts, tile, gameVars, rolls, last>>

\* add_snl, the inner loop: draw pos_end; count a taken one and give the
\* start up past max_attempts, else write the start and the exit
DrawEnd ==
    /\ pc = "end"
    /\ attempts < MaxFailedDraws
    /\ LET re == r_end(call, pos_start)
           pos_end == gen_range(rng, re[1], re[2])
       IN  IF Occupied(tile, pos_end)
           THEN /\ attempts' = attempts + 1
                /\ IF gives_up(attempts + 1)
                   THEN pc' = "start" /\ pos_start' = 0
                   ELSE pc' = "end" /\ pos_start' = pos_start
                /\ UNCHANGED <<tile, call, placed>>
           ELSE /\ attempts' = 0
                /\ tile' = SetTile(SetTile(tile, pos_start,
                                           make_tile(call, PositionOf(pos_end))),
                                   pos_end, TileTarget)
                /\ pos_start' = 0
                /\ IF placed + 1 < num(call)
                   THEN pc' = "start" /\ placed' = placed + 1 /\ call' = call
                   ELSE IF call = "snakes"
                        THEN pc' = "start" /\ placed' = 0 /\ call' = "ladders"
                        ELSE pc' = "play" /\ placed' = 0 /\ call' = call
    /\ rng' = NextRaw(rng)
    /\ UNCHANGED <<menuVars, gameVars, rolls, last>>

----------------------------------------------------------------------------
(* GamePage::game_logic *)

\* GamePage::roll_dice: gen_range(1..=6)
roll_dice == 1..6

\* the GamePage as game_logic sees it
Self ==
    [players |-> players, game_type |-> game_type, dice_value |-> dice_value,
     player_turn |-> player_turn, ended |-> ended, tile |-> tile]

\* the players other than the mover in the order of
\* left.iter_mut().chain(right.iter_mut()); indices are 0-based
Others(ps, mover) == {k \in 0..(Len(ps) - 1) : k # mover}

\* target, were the target index capped at the last cell
target_clamped(pos, dice) == IF pos + dice > 99 THEN 99 ELSE pos + dice

\* let new_pos = pos + self.dice_value as i32
target(pos, dice) == pos + dice

\* advance_turn, were the wrap forgotten
advance_turn_no_wrap(turn, dice, total_players) ==
    IF dice # 6 THEN turn + 1 ELSE turn

\* advance_turn, were the wrap taken one player early
advance_turn_early_wrap(turn, dice, total_players) ==
    IF dice # 6
    THEN IF turn + 1 = total_players - 1 THEN 0 ELSE turn + 1
    ELSE turn

\* advance_turn, were the turn passed on after a 6 as well
advance_turn_always(turn, dice, total_players) ==
    IF turn + 1 = total_players THEN 0 ELSE turn + 1

\* if self.dice_value != 6 { player_turn += 1; wrap at total_players }
advance_turn(turn, dice, total_players) ==
    IF dice # 6
    THEN IF turn + 1 = total_players THEN 0 ELSE turn + 1
    ELSE turn

\* if new_pos > 99 { return }
overshoots(new_pos) == new_pos > 99

\* wins, were the game to end one cell early as well
wins_from_98(new_pos) == new_pos >= 98

\* wins, were the last cell taken to be index 100
wins_at_100(new_pos) == new_pos = 100

\* else if new_pos == 99 { self.ended = true }
wins(new_pos) == new_pos = 99

\* resolve, were only the Snake arm followed
resolve_snakes_only(t, new_pos) ==
    LET landed == TileAt(t, new_pos)
    IN  IF landed.kind = "Snake" THEN landed.pos
        ELSE PositionOf(new_pos)

\* resolve, were only the Ladder arm followed
resolve_ladders_only(t, new_pos) ==
    LET landed == TileAt(t, new_pos)
    IN  IF landed.kind = "Ladder" THEN landed.pos
        ELSE PositionOf(new_pos)

\* the match on self.board.tile[new_pos / 10][new_pos % 10]: the position
\* the mover is given
resolve(t, new_pos) ==
    LET landed == TileAt(t, new_pos)
    IN  IF landed.kind \in {"Snake", "Ladder"} THEN landed.pos
        ELSE PositionOf(new_pos)

\* bump, were only `left` (the players before the mover) visited
bump_left_only(ps, mover) ==
    [k \in 1..Len(ps) |->
        IF (k - 1) < mover /\ ps[k] = ps[mover + 1]
        THEN Position(0, 0) ELSE ps[k]]

\* Mode::Bump: every other player on the mover's position goes to (0, 0)
bump(ps, mover) ==
    [k \in 1..Len(ps) |->
        IF (k - 1) \in Others(ps, mover) /\ ps[k] = ps[mover + 1]
        THEN Position(0, 0) ELSE ps[k]]

\* swap, were the player found sent to (0, 0) as in Bump mode
swap_to_origin(ps, mover, old_position) ==
    LET found == {k \in Others(ps, mover) : ps[k + 1] = ps[mover + 1]}
    IN  IF found = {} THEN ps
        ELSE LET first == CHOOSE k \in found : \A j \in found : k <= j
             IN  [ps EXCEPT ![first + 1] = Position(0, 0)]

\* swap, were the test of `find` inverted
swap_unlike(ps, mover, old_position) ==
    LET found == {k \in Others(ps, mover) : ps[k + 1] # ps[mover + 1]}
    IN  IF found = {} THEN ps
        ELSE LET first == CHOOSE k \in found : \A j \in found : k <= j
             IN  [ps EXCEPT ![first + 1] = old_position]

\* Mode::Swap: the first other player found on the mover's position is
\* given old_position
swap(ps, mover, old_position) ==
    LET found == {k \in Others(ps, mover) : ps[k + 1] = ps[mover + 1]}
    IN  IF found = {} THEN ps
        ELSE LET first == CHOOSE k \in found : \A j \in found : k <= j
             IN  [ps EXCEPT ![first + 1] = old_position]

\* interact, were the Swap arm missing
interact_bump_only(mode, ps, mover, old_position) ==
    CASE mode = "Bump" -> bump(ps, mover)
      [] OTHER -> ps

\* interact, were Friendly to fall into the Bump arm
interact_bump_default(mode, ps, mover, old_position) ==
    CASE mode = "Swap" -> swap(ps, mover, old_position)
      [] OTHER -> bump(ps, mover)

\* match self.game_type
interact(mode, ps, mover, old_position) ==
    CASE mode = "Bump" -> bump(ps, mover)
      [] mode = "Swap" -> swap(ps, mover, old_position)
      [] OTHER -> ps

\* game_logic past the `ended` test, with the dice value drawn
take_turn(self, dice) ==
    LET total_players == Len(self.players)
        mover == self.player_turn
        pos == CellOf(self.players[mover + 1])
        new_pos == target(pos, dice)
        rolled == [self EXCEPT !.dice_value = dice,
                               !.player_turn = advance_turn(mover, dice, total_players)]
    IN  IF overshoots(new_pos) THEN rolled
        ELSE LET old_position == self.players[mover + 1]
                 moved == [self.players EXCEPT ![mover + 1] = resolve(self.tile, new_pos)]
             IN  [rolled EXCEPT
                    !.ended = IF wins(new_pos) THEN TRUE ELSE self.ended,
                    !.players = interact(self.game_type, moved, mover, old_position)]

\* game_logic, were the `ended` test missing
game_logic_unguarded(self, dice) == take_turn(self, dice)

\* GamePage::game_logic with the dice value roll_dice would draw
game_logic(self, dice) ==
    IF self.ended THEN self ELSE take_turn(self, dice)

----------------------------------------------------------------------------
(* GamePage::ranking *)

\* sort_by_key, were ties put in reverse list order
insert_by_key_before_ties(sorted, k, key) ==
    LET ahead == {i \in 1..Len(sorted) : key[sorted[i]] < key[k]}
        n == Cardinality(ahead)
    IN  SubSeq(sorted, 1, n) \o <<k>> \o SubSeq(sorted, n + 1, Len(sorted))

\* one step of the stable sort: k goes behind every entry whose key is not
\* greater than its own; `sorted` is sorted by key
insert_by_key(sorted, k, key) ==
    LET ahead == {i \in 1..Len(sorted) : key[sorted[i]] <= key[k]}
        n == Cardinality(ahead)
    IN  SubSeq(sorted, 1, n) \o <<k>> \o SubSeq(sorted, n + 1, Len(sorted))

RECURSIVE sort_by_key(_, _)
\* slice::sort_by_key on the first n entries, a stable sort: the list
\* places 1..n in the order of their keys
sort_by_key(n, key) ==
    IF n = 0 THEN <<>>
    ELSE insert_by_key(sort_by_key(n - 1, key), n, key)

\* the key of the sort: -(p.position.y * 10 + p.position.x + 10)
rank_key(p) == 0 - (p.y * 10 + p.x + 10)

\* `ranks` after the sort: the list places of the players, best first
ranking(ps) == sort_by_key(Len(ps), [k \in 1..Len(ps) |-> rank_key(ps[k])])

\* GameMsg::RollDice: GamePage::update calls game_logic
RollDice ==
    /\ screen = "game"
    /\ pc = "play"
    /\ rolls < MaxRolls
    /\ \E dice \in roll_dice :
         LET after == game_logic(Self, dice)
         IN  /\ players' = after.players
             /\ dice_value' = after.dice_value
             /\ player_turn' = after.player_turn
             /\ ended' = after.ended
             /\ last' = [called |-> TRUE, was_ended |-> ended, mover |-> player_turn,
                         dice |-> dice, players |-> players, player_turn |-> player_turn]
    /\ rolls' = rolls + 1
    /\ UNCHANGED <<menuVars, genVars, game_type>>

----------------------------------------------------------------------------
(* The specification *)

Init ==
    /\ screen = "menu"
    /\ config = DefaultConfig
    /\ rng \in 0..MaxSeed
    /\ pc = "menu"
    /\ call = "snakes"
    /\ placed = 0
    /\ attempts = 0
    /\ pos_start = 0
    /\ tile = EmptyTiles
    /\ players = <<>>
    /\ game_type = DefaultMode
    /\ dice_value = 0
    /\ player_turn = 0
    /\ ended = FALSE
    /\ rolls = 0
    /\ last = NoRoll

Next ==
    \/ \E mode \in Modes : PickList(mode)
    \/ AddPlayer
    \/ \E i \in 0..3 : RemovePlayer(i)
    \/ LaunchGame
    \/ DrawStart
    \/ DrawEnd
    \/ RollDice

Spec == Init /\ [][Next]_vars

----------------------------------------------------------------------------
(* Board generation alone, over more streams: every seed in 0..MaxGenSeed  *)
(* and the two scripted streams.                                           *)

GenSeeds == (0..MaxGenSeed) \cup {1001, 2001}

InitGen ==
    /\ screen = "menu"
    /\ config = DefaultConfig
    /\ rng \in GenSeeds
    /\ pc = "menu"
    /\ call = "snakes"
    /\ placed = 0
    /\ attempts = 0
    /\ pos_start = 0
    /\ tile = EmptyTiles
    /\ players = <<>>
    /\ game_type = DefaultMode
    /\ dice_value = 0
    /\ player_turn = 0
    /\ ended = FALSE
    /\ rolls = 0
    /\ last = NoRoll

NextGen ==
    \/ LaunchGame
    \/ DrawStart
    \/ DrawEnd

SpecGen == InitGen /\ [][NextGen]_vars

\* add_snl is one sequential loop: a draw that can be made is made
SpecGenFair == SpecGen /\ WF_vars(DrawStart) /\ WF_vars(DrawEnd)

----------------------------------------------------------------------------
(* GamePage::new as a function of its argument: LaunchGame carries any     *)
(* Config, here one of 0..MaxConfigPlayers players.                        *)

\* a Config of n players
ConfigOf(n) ==
    [players |-> [k \in 1..n |-> k], possible_players |-> <<>>,
     game_type |-> DefaultMode]

InitConfig ==
    /\ screen = "menu"
    /\ config \in {ConfigOf(n) : n \in 0..MaxConfigPlayers}
    /\ rng \in 0..MaxSeed
    /\ pc = "menu"
    /\ call = "snakes"
    /\ placed = 0
    /\ attempts = 0
    /\ pos_start = 0
    /\ tile = EmptyTiles
    /\ players = <<>>
    /\ game_type = DefaultMode
    /\ dice_value = 0
    /\ player_turn = 0
    /\ ended = FALSE
    /\ rolls = 0
    /\ last = NoRoll

SpecConfig == InitConfig /\ [][NextGen]_vars

-----------------------------------------------------------------------------
(* The whole program on the stream SnakePit: menu, generation and game.    *)

InitPit ==
    /\ screen = "menu"
    /\ config = DefaultConfig
    /\ rng = 3001
    /\ pc = "menu"
    /\ call = "snakes"
    /\ placed = 0
    /\ attempts = 0
    /\ pos_start = 0
    /\ tile = EmptyTiles
    /\ players = <<>>
    /\ game_type = DefaultMode
    /\ dice_value = 0
    /\ player_turn = 0
    /\ ended = FALSE
    /\ rolls = 0
    /\ last = NoRoll

SpecPit == InitPit /\ [][Next]_vars

----------------------------------------------------------------------------
(* Vocabulary of the properties *)

\* a step that handles one RollDice message
RollStep == pc = "play" /\ rolls' = rolls + 1

\* a RollDice step taken while the game had not ended
TurnStep == RollStep /\ ~ended

\* the dice value the step drew
Drawn == last'.dice

\* the cell of the player whose turn it is, and the target index of the step
MoverCell == CellOf(players[player_turn + 1])
TargetIndex == MoverCell + Drawn

\* the cell a tile sends a piece to: the stored exit of a snake or ladder,
\* the cell itself otherwise
ExitOf(t) ==
    IF TileAt(tile, t).kind = "Snake" \/ TileAt(tile, t).kind = "Ladder"
    THEN TileAt(tile, t).pos
    ELSE Position(t % 10, t \div 10)

\* the players other than the one whose turn it is (1-based)
NonMovers == {k \in 1..Len(players) : k # player_turn + 1}

\* the same vocabulary for the RollDice message handled last
LastTurn == last.called /\ ~last.was_ended
LastMoverCell == CellOf(last.players[last.mover + 1])
LastTarget == LastMoverCell + last.dice
LastNonMovers == {k \in 1..Len(last.players) : k # last.mover + 1}

----------------------------------------------------------------------------
(* C1: a roll request issued when the game has ended changes nothing:      *)
(* every player's position, ended, player_turn and dice_value are the same *)
(* after it as before it, however often it is repeated.                    *)
RollAfterEndIsNoOp ==
    [][(RollStep /\ ended) =>
        /\ players' = players
        /\ ended' = ended
        /\ player_turn' = player_turn
        /\ dice_value' = dice_value]_vars

\* a RollDice message was handled after the game had ended
RolledAfterEnd == last.called /\ last.was_ended /\ ended

(* C2: in a game that has not ended, a roll whose target index is exactly  *)
(* 99 sets ended and leaves the mover on cell 99 (x = 9, y = 9).           *)
ExactLandingWins ==
    [][(TurnStep /\ TargetIndex = 99) =>
        /\ ended'
        /\ players'[player_turn + 1] = Position(9, 9)]_vars

\* a roll with target index 99 was handled
WinningRollHandled ==
    /\ LastTurn
    /\ LastTarget = 99
    /\ players[last.mover + 1] = Position(9, 9)

(* C3: on a winning roll (target index 99) in Bump and in Swap mode no     *)
(* player other than the mover changes position.                           *)
NoInteractionOnWin ==
    [][(TurnStep /\ TargetIndex = 99 /\ game_type \in {"Bump", "Swap"}) =>
        \A k \in NonMovers : players'[k] = players[k]]_vars

\* a winning roll was handled in Bump or Swap mode while another player
\* stood away from cell 0
WinWithOthersAfield ==
    /\ LastTurn
    /\ LastTarget = 99
    /\ game_type \in {"Bump", "Swap"}
    /\ \E k \in LastNonMovers :
          last.players[k] # Position(0, 0) /\ players[k] = last.players[k]

(* C4: in a game that has not ended, a roll whose target index exceeds 99  *)
(* leaves every player's position and ended unchanged; dice_value is the   *)
(* value drawn and player_turn has advanced when that value is not 6.      *)
OvershootKeepsPositions ==
    [][(TurnStep /\ TargetIndex > 99) =>
        /\ players' = players
        /\ ended' = ended
        /\ dice_value' = Drawn
        /\ (Drawn # 6 => player_turn' = (player_turn + 1) % Len(players))]_vars

\* an overshooting roll other than a 6 was handled
OvershootHandled ==
    /\ LastTurn
    /\ LastTarget > 99
    /\ last.dice # 6
    /\ dice_value = last.dice
    /\ player_turn # last.player_turn

(* C5: in a game of N players that has not ended, every roll other than a  *)
(* 6 takes player_turn from i to (i + 1) mod N, whether or not the mover   *)
(* moves, so the turn visits 0, 1, ..., N-1 in order and wraps to 0.       *)
TurnRotates ==
    [][(TurnStep /\ Drawn # 6) =>
        /\ player_turn \in 0..(Len(players) - 1)
        /\ player_turn' = (player_turn + 1) % Len(players)]_vars

\* the turn wrapped from the last of at least three players to the first
TurnWrapped ==
    /\ LastTurn
    /\ last.dice # 6
    /\ Len(players) >= 3
    /\ last.player_turn = Len(players) - 1
    /\ player_turn = 0

(* C6: a roll of 6 never changes player_turn, also when the roll           *)
(* overshoots or wins.                                                     *)
SixKeepsTurn ==
    [][(TurnStep /\ Drawn = 6) => player_turn' = player_turn]_vars

\* a 6 was rolled by a player other than the first and overshot
SixOvershot ==
    /\ LastTurn
    /\ last.dice = 6
    /\ LastTarget > 99
    /\ last.player_turn # 0
    /\ player_turn = last.player_turn

(* C7: for a roll with target index t <= 99 the mover ends on the stored   *)
(* exit of the tile at t when that tile is a Snake or a Ladder and on t    *)
(* itself otherwise; one hop, never a chain.                               *)
MoverFollowsTile ==
    [][(TurnStep /\ TargetIndex <= 99) =>
        players'[player_turn + 1] = ExitOf(TargetIndex)]_vars

\* a roll landed on a snake's start and the mover is on the snake's exit
SnakeTaken ==
    /\ LastTurn
    /\ LastTarget <= 99
    /\ TileAt(tile, LastTarget).kind = "Snake"
    /\ players[last.mover + 1] = TileAt(tile, LastTarget).pos
    /\ CellOf(players[last.mover + 1]) < LastTarget

(* C8: Bump mode, roll with target index below 99: the mover is on its new *)
(* cell, every other player that stood on that cell is on cell 0 and every *)
(* other player is where it was.                                           *)
BumpSendsOccupantsHome ==
    [][(TurnStep /\ game_type = "Bump" /\ TargetIndex < 99) =>
        /\ players'[player_turn + 1] = ExitOf(TargetIndex)
        /\ \A k \in NonMovers :
              players'[k] = IF players[k] = ExitOf(TargetIndex)
                            THEN Position(0, 0) ELSE players[k]]_vars

\* in Bump mode a player was sent from the mover's new cell to cell 0 while
\* a third player stayed where it was
BumpHappened ==
    /\ LastTurn
    /\ game_type = "Bump"
    /\ LastTarget < 99
    /\ \E k \in LastNonMovers :
          /\ last.players[k] = players[last.mover + 1]
          /\ players[k] = Position(0, 0)
    /\ \E k \in LastNonMovers :
          /\ last.players[k] # players[last.mover + 1]
          /\ last.players[k] # Position(0, 0)
          /\ players[k] = last.players[k]

(* C9: Swap mode, roll with target index below 99: the mover is on its new *)
(* cell, the first other player in list order that stood on that cell is   *)
(* on the mover's old cell, and every other player is where it was.        *)
SwapExchangesFirstOccupant ==
    [][(TurnStep /\ game_type = "Swap" /\ TargetIndex < 99) =>
        LET occupants == {k \in NonMovers : players[k] = ExitOf(TargetIndex)}
        IN  /\ players'[player_turn + 1] = ExitOf(TargetIndex)
            /\ \A k \in NonMovers :
                  players'[k] =
                     IF k \in occupants /\ \A j \in occupants : k <= j
                     THEN players[player_turn + 1] ELSE players[k]]_vars

\* in Swap mode the mover and a player on its new cell changed places, the
\* mover coming from a cell other than 0, while a third player stayed
SwapHappened ==
    /\ LastTurn
    /\ game_type = "Swap"
    /\ LastTarget < 99
    /\ last.players[last.mover + 1] # Position(0, 0)
    /\ \E k \in LastNonMovers :
          /\ last.players[k] = players[last.mover + 1]
          /\ players[k] = last.players[last.mover + 1]
    /\ \E k \in LastNonMovers :
          /\ last.players[k] # players[last.mover + 1]
          /\ players[k] = last.players[k]

(* C10: Friendly mode: a roll never changes the position of a player other *)
(* than the mover.                                                         *)
FriendlyMovesOnlyMover ==
    [][(RollStep /\ game_type = "Friendly") =>
        \A k \in NonMovers : players'[k] = players[k]]_vars

\* in Friendly mode the mover joined another player on a cell other than 0
FriendlyShared ==
    /\ LastTurn
    /\ game_type = "Friendly"
    /\ players[last.mover + 1] # last.players[last.mover + 1]
    /\ players[last.mover + 1] # Position(0, 0)
    /\ \E k \in LastNonMovers :
          last.players[k] = players[last.mover + 1] /\ players[k] = last.players[k]

----------------------------------------------------------------------------
(* Vocabulary of the board properties *)

Cells == 0..99

SnakeStarts == {p \in Cells : TileAt(tile, p).kind = "Snake"}
LadderStarts == {p \in Cells : TileAt(tile, p).kind = "Ladder"}
StartCells == SnakeStarts \cup LadderStarts

\* the exit cell stored on a start cell
ExitCellOf(p) == TileAt(tile, p).pos.y * 10 + TileAt(tile, p).pos.x
ExitCells == {ExitCellOf(p) : p \in StartCells}

\* Board::new has returned
BoardReturned == pc = "play"

(* C11: when Board::new returns, the board holds exactly 8 Snake start     *)
(* tiles and exactly 8 Ladder start tiles.                                 *)
EightSnakesEightLadders ==
    BoardReturned =>
        Cardinality(SnakeStarts) = 8 /\ Cardinality(LadderStarts) = 8

\* Board::new returned the board of the crowded row, on which a start had
\* been given up
CrowdedBoardReturned ==
    /\ BoardReturned
    /\ {p \in SnakeStarts : p \div 10 = 9} = 90..97
    /\ 80 \in LadderStarts
    /\ 81 \notin StartCells

(* C12: every Snake tile's stored exit lies in a strictly lower row than   *)
(* the snake's start, every Ladder tile's in a strictly higher row.        *)
SnakesDownLaddersUp ==
    /\ \A p \in SnakeStarts : ExitCellOf(p) \div 10 < p \div 10
    /\ \A p \in LadderStarts : ExitCellOf(p) \div 10 > p \div 10

\* a returned board with a snake into the row just below its start and a
\* ladder into the row just above
NeighbourRowBoard ==
    /\ BoardReturned
    /\ \E p \in SnakeStarts : ExitCellOf(p) \div 10 = p \div 10 - 1
    /\ \E p \in LadderStarts : ExitCellOf(p) \div 10 = p \div 10 + 1

(* C13: at every moment of generation and on every returned board the      *)
(* start cells and the exit cells of the snakes and ladders are pairwise   *)
(* distinct cells and every exit cell holds Target; a returned board has   *)
(* 16 starts and 16 exits, 32 cells.                                       *)
StartsAndExitsDistinct ==
    /\ \A p \in StartCells : TileAt(tile, ExitCellOf(p)).kind = "Target"
    /\ \A p, q \in StartCells : p # q => ExitCellOf(p) # ExitCellOf(q)
    /\ ExitCells = {p \in Cells : TileAt(tile, p).kind = "Target"}
    /\ BoardReturned =>
          /\ Cardinality(StartCells) = 16
          /\ Cardinality(ExitCells) = 16
          /\ Cardinality(StartCells \cup ExitCells) = 32

\* with snakes and ladders on the board, an exit draw has just met a taken
\* cell and the start is still kept
TakenExitRefused ==
    /\ pc = "end"
    /\ attempts > 0
    /\ LadderStarts # {}

(* C14: board generation always terminates: whatever the stream of draws,  *)
(* Board::new, once entered, finishes (returning a board or failing)       *)
(* after a bounded number of start and exit attempts.  The code has no way *)
(* to fail, so finishing is returning the board.                           *)
GenerationTerminates == (pc \in {"start", "end"}) ~> BoardReturned

(* C15: game_logic never reaches outside its vectors and arrays: in every  *)
(* state of a game of 2 to 4 players player_turn is less than the number   *)
(* of players, every player's x and y are within 0..9, every stored exit   *)
(* is within 0..9 too, and every target index that is not an overshoot is  *)
(* within 0..99.                                                           *)
GameLogicInBounds ==
    BoardReturned =>
        /\ Len(players) \in 2..4
        /\ player_turn \in 0..(Len(players) - 1)
        /\ \A k \in 1..Len(players) :
              players[k].x \in 0..9 /\ players[k].y \in 0..9
        /\ \A p \in StartCells :
              TileAt(tile, p).pos.x \in 0..9 /\ TileAt(tile, p).pos.y \in 0..9
        /\ \A dice \in 1..6 :
              LET t == players[player_turn + 1].y * 10
                       + players[player_turn + 1].x + dice
              IN  t <= 99 => t \in 0..99

\* in a game of four players the turn has come back to the first player
\* and a player stands in the top row
FourPlayersWrapped ==
    /\ LastTurn
    /\ Len(players) = 4
    /\ last.player_turn = 3
    /\ player_turn = 0
    /\ \E k \in 1..4 : players[k].y = 9

(* C16: the ranking lists every player once, in descending order of board  *)
(* progress y * 10 + x, players of equal progress in list order.           *)
RankingDescendingStable ==
    BoardReturned =>
        LET r == ranking(players)
            progress(k) == players[k].y * 10 + players[k].x
        IN  /\ Len(r) = Len(players)
            /\ {r[i] : i \in 1..Len(r)} = 1..Len(players)
            /\ \A i, j \in 1..Len(r) :
                  i < j => \/ progress(r[i]) > progress(r[j])
                           \/ progress(r[i]) = progress(r[j]) /\ r[i] < r[j]

\* three players, the first and the last on one cell other than 0, the
\* second ahead of them: the ranking is second, first, third
TieRanked ==
    /\ BoardReturned
    /\ Len(players) = 3
    /\ players[1] = players[3]
    /\ players[1] # Position(0, 0)
    /\ CellOf(players[2]) > CellOf(players[1])
    /\ ranking(players) = <<2, 1, 3>>

(* C17: GamePage::new with a player count outside 2..4 is rejected: no     *)
(* game is created for such a configuration.                               *)
BadPlayerCountRejected == screen = "game" => Len(players) \in 2..4

(* C18: in the menu the list of players always has 2 to 4 entries,         *)
(* whatever AddPlayer and RemovePlayer messages the view has issued; the   *)
(* players listed and those in reserve are always the same four.           *)
MenuKeepsTwoToFour ==
    screen = "menu" =>
        /\ Len(config.players) \in 2..4
        /\ Len(config.players) + Len(config.possible_players) = 4

\* the menu lists two players again after players were added and removed:
\* the two are no longer the two it started with
MenuRefilled ==
    /\ screen = "menu"
    /\ Len(config.players) = 2
    /\ config.players # DefaultConfig.players
    /\ config.possible_players # DefaultConfig.possible_players

(* C19, as stated: generation does not keep an exit off cell 99, that is,  *)
(* cell 99 is among the cells an exit draw can return.  Only ladders reach *)
(* row 9, and every ladder's exit range ends at the same bound, so the     *)
(* statement is that each exit draw of a ladder has 99 in its range.       *)
Cell99CanBeAnExit ==
    (pc = "end" /\ call = "ladders") =>
        99 \in r_end(call, pos_start)[1]..(r_end(call, pos_start)[2] - 1)

(* C19, amended: generation keeps every exit off cell 99: no snake or      *)
(* ladder has cell 99 as its exit and cell 99 never holds Target (nor a    *)
(* start); it stays None.                                                  *)
Cell99StaysFree ==
    /\ 99 \notin ExitCells
    /\ 99 \notin StartCells
    /\ TileAt(tile, 99).kind = "None"

\* a returned board with an exit on cell 98, the last cell an exit can take
ExitOnCell98 ==
    /\ BoardReturned
    /\ 98 \in ExitCells
    /\ \E p \in LadderStarts : ExitCellOf(p) = 98

(* C20: in add_snl every failed exit draw adds one to the counter of       *)
(* failed draws, and the draw that takes the counter past 50 discards the  *)
(* candidate start (a new start is drawn next), so no start is kept        *)
(* through more than 51 failed exit draws; a start is written only on a    *)
(* cell that is None, together with an exit cell that is None as well.     *)
StartGivenUpPastFifty ==
    [][pc = "end" =>
        IF tile' = tile
        THEN /\ attempts' = attempts + 1
             /\ attempts' > 50 => pc' = "start"
             /\ attempts' <= 50 => pc' = "end" /\ pos_start' = pos_start
        ELSE /\ attempts' = 0
             /\ TileAt(tile, pos_start).kind = "None"
             /\ \E e \in Cells \ {pos_start} :
                   /\ TileAt(tile, e).kind = "None"
                   /\ TileAt(tile', e).kind = "Target"
                   /\ TileAt(tile', pos_start).kind \in {"Snake", "Ladder"}
                   /\ TileAt(tile', pos_start).pos = Position(e % 10, e \div 10)
                   /\ \A p \in Cells \ {pos_start, e} :
                         TileAt(tile', p) = TileAt(tile, p)]_vars

\* a ladder's start has just been given up after 51 failed exit draws
StartGivenUp ==
    /\ pc = "start"
    /\ call = "ladders"
    /\ attempts = 51

(* C21: generation never gets stuck: whenever a snake or a ladder remains  *)
(* to be placed, some cell of the start range is None and has a None cell  *)
(* in the exit range add_snl draws from for it.                            *)
PlacementStillPossible ==
    pc \in {"start", "end"} =>
        \E ps \in r_start(call)[1]..(r_start(call)[2] - 1) :
            /\ TileAt(tile, ps).kind = "None"
            /\ \E pe \in r_end(call, ps)[1]..(r_end(call, ps)[2] - 1) :
                  TileAt(tile, pe).kind = "None"

\* the start kept is one whose whole exit range 90..98 is taken, with
\* ladders still to be placed
KeptStartHasNoExit ==
    /\ pc = "end"
    /\ call = "ladders"
    /\ pos_start \div 10 = 8
    /\ \A pe \in 90..98 : TileAt(tile, pe).kind # "None"

(* C22: in every state of a game, ended holds exactly when some player is  *)
(* on cell 99, and at most one player is on cell 99.                       *)
EndedIffOnCell99 ==
    BoardReturned =>
        LET winners == {k \in 1..Len(players) : players[k] = Position(9, 9)}
        IN  /\ ended <=> winners # {}
            /\ Cardinality(winners) <= 1

\* the game has ended with a player other than the first on cell 99 and
\* every other player away from it
LaterPlayerOnCell99 ==
    /\ BoardReturned
    /\ ended
    /\ Len(players) >= 3
    /\ players[1] # Position(9, 9)
    /\ \E k \in 2..Len(players) : players[k] = Position(9, 9)

(* C23: in every state of a game no player rests on the start of a snake   *)
(* or ladder; cell 0 is never a start or an exit; and a player that Swap   *)
(* has moved stands on the cell the mover came from.                       *)
NobodyRestsOnAStart ==
    /\ TileAt(tile, 0).kind = "None"
    /\ BoardReturned =>
          \A k \in 1..Len(players) :
              TileAt(tile, players[k].y * 10 + players[k].x).kind
                  \notin {"Snake", "Ladder"}
    /\ (BoardReturned /\ LastTurn /\ game_type = "Swap") =>
          \A k \in LastNonMovers :
              players[k] # last.players[k] =>
                  players[k] = last.players[last.mover + 1]

\* a roll landed on a ladder's start and the mover rests on the ladder's
\* exit, above the start
LadderTaken ==
    /\ LastTurn
    /\ LastTarget <= 99
    /\ TileAt(tile, LastTarget).kind = "Ladder"
    /\ players[last.mover + 1] = TileAt(tile, LastTarget).pos
    /\ TileAt(tile, CellOf(players[last.mover + 1])).kind = "Target"

(* C24: in Bump and in Swap mode two players share a cell only if it is    *)
(* cell 0; so whatever the next roll, at most one other player stands on   *)
(* the cell the mover would land on.                                       *)
SharingOnlyOnCell0 ==
    (BoardReturned /\ game_type \in {"Bump", "Swap"}) =>
        /\ \A j, k \in 1..Len(players) :
              (j # k /\ players[j] = players[k]) => players[j] = Position(0, 0)
        /\ \A dice \in 1..6 :
              LET t == players[player_turn + 1].y * 10
                       + players[player_turn + 1].x + dice
              IN  t <= 99 =>
                     Cardinality({k \in NonMovers : players[k] = ExitOf(t)}) <= 1

\* in Swap mode the player swapped back to cell 0 shares it with a player
\* that has not left it yet
SwappedOntoSharedCell0 ==
    /\ LastTurn
    /\ game_type = "Swap"
    /\ last.players[last.mover + 1] = Position(0, 0)
    /\ \E j, k \in LastNonMovers :
          /\ j # k
          /\ last.players[j] # Position(0, 0)
          /\ players[j] = Position(0, 0)
          /\ players[k] = Position(0, 0)

\* the cells a player resting on cell c can rest on after its next roll
MovesFrom(c) ==
    {CellOf(resolve(tile, c + dice)) : dice \in {d \in roll_dice : c + d <= 99}}

\* the cells players can come to rest on, starting from the cells of S:
\* by their own rolls, by Bump (cell 0) or by Swap (a cell another player
\* rested on)
RECURSIVE RestingCells(_)
RestingCells(S) ==
    LET T == S \cup UNION {MovesFrom(c) : c \in S}
    IN  IF T = S THEN S ELSE RestingCells(T)

(* C25: the game can always be finished: in every state of a game that has *)
(* not ended, cell 99 is among the cells some player can come to rest on   *)
(* by some sequence of rolls.                                              *)
GameCanBeFinished ==
    (BoardReturned /\ ~ended) =>
        99 \in RestingCells({0} \cup {CellOf(players[k]) : k \in 1..Len(players)})

====
